---------------------------- MODULE Spec2Model ----------------------------
(***************************************************************************)
(* Model of chaotic_cipher.py: the Gauss-map keystream generator           *)
(* (gauss_map_keygen), the XOR file transform (chaotic_encrypt_decrypt)    *)
(* and the interactive driver (main).                                      *)
(*                                                                         *)
(* Floating point.  A Python float / numpy float64 is modelled as a record *)
(* [k, v]: k = "fin" with v the value in units of 1/Scale, k = "inf" with  *)
(* v the sign, or k = "nan".  The finite range is |v| <= MaxFloat; a       *)
(* result beyond it overflows exactly where binary64 overflows beyond      *)
(* 1.8e308: to infinity for a multiplication, an addition, np.exp and a    *)
(* numpy power, and to OverflowError for a power of a Python float.        *)
(***************************************************************************)
EXTENDS Integers, Sequences, FiniteSets, TLC

\* ------------------------------------------------------------------ bounds
\* Fractional units per 1.0 of a modelled float.
Scale == 1024
\* Largest finite magnitude of a modelled float, in units of 1/Scale.
MaxFloat == 67108864
\* Longest file / keystream.
MaxLen == 2
\* Number of runs of the program (Spec).
MaxRuns == 2
\* Number of direct calls of gauss_map_keygen (SpecGen).
MaxCalls == 3

\* --------------------------------------------------------------- constants
\* The mask 0xFF keeps the value modulo ByteMod.
ByteMod == 256

\* ------------------------------------------------------------------ floats
Fin(n) == [k |-> "fin", v |-> n]
PInf == [k |-> "inf", v |-> 1]
NInf == [k |-> "inf", v |-> -1]
NaN == [k |-> "nan", v |-> 0]

IsFin(a) == a.k = "fin"
IsInf(a) == a.k = "inf"
IsNaN(a) == a.k = "nan"

Abs(n) == IF n < 0 THEN -n ELSE n
Sgn(n) == IF n < 0 THEN -1 ELSE IF n > 0 THEN 1 ELSE 0
InfOf(s) == IF s < 0 THEN NInf ELSE PInf

\* A real result n (in units): itself when in range, else overflow to infinity.
Rnd(n) == IF Abs(n) > MaxFloat THEN InfOf(n) ELSE Fin(n)

\* |a| * |b| / Scale for magnitudes a, b <= MaxFloat, computed from the
\* quotients and remainders by Scale so that no intermediate value leaves 32
\* bits; MaxFloat + 1 stands for every product beyond MaxFloat.
MulMag(a, b) ==
    LET qa == a \div Scale
        ra == a % Scale
        qb == b \div Scale
        rb == b % Scale
    IN  IF qa > 0 /\ qb > (MaxFloat \div Scale) \div qa
        THEN MaxFloat + 1
        ELSE LET r == a * qb + qa * rb + (ra * rb) \div Scale
             IN  IF r > MaxFloat THEN MaxFloat + 1 ELSE r

\* Unary minus.
FNeg(a) == IF IsNaN(a) THEN NaN ELSE [k |-> a.k, v |-> -a.v]

\* a * b (Python float or float64: overflow gives infinity, 0 * inf gives nan).
FMul(a, b) ==
    IF IsNaN(a) \/ IsNaN(b) THEN NaN
    ELSE IF IsInf(a) \/ IsInf(b)
         THEN IF a.v = 0 \/ b.v = 0 THEN NaN ELSE InfOf(Sgn(a.v) * Sgn(b.v))
         ELSE Rnd(Sgn(a.v) * Sgn(b.v) * MulMag(Abs(a.v), Abs(b.v)))

\* a + b (inf + -inf gives nan).
FAdd(a, b) ==
    IF IsNaN(a) \/ IsNaN(b) THEN NaN
    ELSE IF IsInf(a) /\ IsInf(b) THEN (IF a.v = b.v THEN a ELSE NaN)
    ELSE IF IsInf(a) THEN a
    ELSE IF IsInf(b) THEN b
    ELSE Rnd(a.v + b.v)

\* a / 2.
FHalf(a) == IF IsFin(a) THEN Fin(Sgn(a.v) * (Abs(a.v) \div 2)) ELSE a

\* a < b; every comparison with nan is False.
FLt(a, b) ==
    IF IsNaN(a) \/ IsNaN(b) THEN FALSE
    ELSE IF IsInf(a) THEN a.v < 0 /\ ~(IsInf(b) /\ b.v < 0)
    ELSE IF IsInf(b) THEN b.v > 0
    ELSE a.v < b.v

\* e^(y/Scale) * Scale for a finite y: halve the argument down to |y| <=
\* Scale/4, a fourth-order Taylor polynomial there, then square back up.
\* The result is an integer >= 0, or -1 once it has passed MaxFloat.
RECURSIVE ExpUnits(_)
ExpUnits(y) ==
    IF Abs(y) <= Scale \div 4
    THEN LET t2 == (y * y) \div (2 * Scale)
             t3 == (t2 * y) \div (3 * Scale)
             t4 == (t3 * y) \div (4 * Scale)
         IN  Scale + y + t2 + t3 + t4
    ELSE LET h == ExpUnits(y \div 2)
         IN  IF h < 0 THEN -1
             ELSE LET sq == MulMag(h, h)
                  IN  IF sq > MaxFloat THEN -1 ELSE sq

\* np.exp: exp(-inf) = 0, exp(inf) = inf, exp(nan) = nan, overflow to inf.
FExp(a) ==
    IF IsNaN(a) THEN NaN
    ELSE IF IsInf(a) THEN (IF a.v < 0 THEN Fin(0) ELSE PInf)
    ELSE LET e == ExpUnits(a.v)
         IN  IF e < 0 THEN PInf ELSE Fin(e)

\* --------------------------------------------------------- the Gauss map
One == Fin(Scale)

\* x**2.  Before the first map update x is the Python float x0, whose power
\* raises OverflowError on overflow; afterwards x is the numpy float64 that
\* np.exp returned, whose power overflows to infinity.
Square(x, isPy) ==
    LET sq == FMul(x, x)
    IN  IF isPy /\ IsFin(x) /\ IsInf(sq)
        THEN [err |-> "OverflowError", val |-> x]
        ELSE [err |-> "none", val |-> sq]

\* x = np.exp(-alpha * x**2) + beta
MapUpdate(x, al, be, isPy) ==
    LET sq == Square(x, isPy)
    IN  IF sq.err # "none" THEN sq
        ELSE [err |-> "none",
              val |-> FAdd(FExp(FMul(FNeg(al), sq.val)), be)]

\* ((x + 1)/2) * 256
Scaled(x) == FMul(FHalf(FAdd(x, One)), Fin(ByteMod * Scale))

\* Mutant of IntOf: a non-finite value is coerced to 0 instead of raising.
IntOfCoerced(f) ==
    IF IsFin(f) THEN [err |-> "none", val |-> Sgn(f.v) * (Abs(f.v) \div Scale)]
    ELSE [err |-> "none", val |-> 0]

\* Mutant of IntOf: math.floor instead of int.
IntOfFloor(f) ==
    IF IsInf(f) THEN [err |-> "OverflowError", val |-> 0]
    ELSE IF IsNaN(f) THEN [err |-> "ValueError", val |-> 0]
    ELSE [err |-> "none", val |-> f.v \div Scale]

\* int(f): rounds toward zero; raises on infinity and on nan.
IntOf(f) ==
    IF IsInf(f) THEN [err |-> "OverflowError", val |-> 0]
    ELSE IF IsNaN(f) THEN [err |-> "ValueError", val |-> 0]
    ELSE [err |-> "none", val |-> Sgn(f.v) * (Abs(f.v) \div Scale)]

\* Mutant of AndFF: the mask is left out.
NoMask(n) == n

\* n & 0xFF on a Python integer of either sign (two's complement of unbounded
\* width): the residue of n modulo 256 in 0..255.
AndFF(n) == n % ByteMod

\* int(((x + 1)/2) * 256) & 0xFF
ToByte(x) ==
    LET n == IntOf(Scaled(x))
    IN  IF n.err # "none" THEN n ELSE [err |-> "none", val |-> AndFF(n.val)]

\* Mutant of InitialX: the map state is kept from the previous call.
LeftoverX(x0arg, xold) == xold

\* x = x0: the map state a call starts from, given the state xold that the
\* previous call left behind.
InitialX(x0arg, xold) == x0arg

\* Mutant of InRange: range(length - 1).
InRangeShort(j, n) == j < n - 1

\* for i in range(length): whether the loop has another pass to make.
InRange(j, n) == j < n

\* Mutant of KeyIndex: the key is filled from its end.
KeyIndexFromEnd(j, n) == n - j

\* key[i]: the position (from 1) of the byte that pass i writes in a key of n.
KeyIndex(j, n) == j + 1

\* bytearray(length): length zero bytes.
ByteArray(n) == [j \in 1..n |-> 0]

\* --------------------------------------------------------------- bit-wise xor
RECURSIVE XorInt(_, _)
XorInt(a, b) ==
    IF a = 0 /\ b = 0 THEN 0
    ELSE (((a % 2) + (b % 2)) % 2) + 2 * XorInt(a \div 2, b \div 2)

\* Mutant of XorByte: the bytes are added modulo 256 instead of xor-ed.
AddByte(d, k) == (d + k) % ByteMod

\* d ^ k
XorByte(d, k) == XorInt(d, k)

Min(a, b) == IF a < b THEN a ELSE b

\* Mutant of XorZip: the last position is dropped.
XorZipShort(d, k) == [j \in 1..(Min(Len(d), Len(k)) - 1) |-> XorInt(d[j], k[j])]

\* bytes(d ^ k for d, k in zip(data, key)): zip stops at the shorter one.
XorZip(d, k) == [j \in 1..Min(Len(d), Len(k)) |-> XorByte(d[j], k[j])]

\* ------------------------------------------------------------- user inputs
\* What the user may type at the prompts, and what the files hold at start.
ModeInputs == {"encrypt", " DECRYPT ", "enc"}
PathInputs == {"a", "b"}
X0Inputs == {"0.1", "1", "abc"}
AlphaInputs == {"4.9", "-8"}
BetaInputs == {"0.2", "-3"}
DataBytes == {66, 255}
RECURSIVE SeqsUpTo(_, _)
SeqsUpTo(S, n) ==
    IF n = 0 THEN {<<>>}
    ELSE LET shorter == SeqsUpTo(S, n - 1)
         IN  shorter \cup {Append(q, b) : q \in shorter, b \in S}
InitData == SeqsUpTo(DataBytes, MaxLen)

\* Arguments of direct calls of gauss_map_keygen.
GenX0 == {Fin(Scale \div 10), Fin(300 * Scale)}
GenAlpha == {Fin((49 * Scale) \div 10), Fin(-8 * Scale), Fin(0)}
GenBeta == {Fin(Scale \div 5), Fin(-3 * Scale), Fin(300 * Scale)}

\* input(...).strip().lower()
StripLower(s) == IF s = " DECRYPT " THEN "decrypt" ELSE s

\* float(input(...).strip()): the value, or ValueError for a non-number.
FloatOf(s) ==
    CASE s = "0.1" -> [err |-> "none", val |-> Fin(Scale \div 10)]
      [] s = "1"   -> [err |-> "none", val |-> One]
      [] s = "4.9" -> [err |-> "none", val |-> Fin((49 * Scale) \div 10)]
      [] s = "-8"  -> [err |-> "none", val |-> Fin(-8 * Scale)]
      [] s = "0.2" -> [err |-> "none", val |-> Fin(Scale \div 5)]
      [] s = "-3"  -> [err |-> "none", val |-> Fin(-3 * Scale)]
      [] OTHER     -> [err |-> "ValueError", val |-> NaN]

\* mode in ("encrypt", "decrypt")
ValidMode(m) == m \in {"encrypt", "decrypt"}

\* -1 < x0 < 1
X0InRange(a) == FLt(FNeg(One), a) /\ FLt(a, One)

\* The ranges the prompts of main state for alpha and beta.
FLe(a, b) == FLt(a, b) \/ (IsFin(a) /\ IsFin(b) /\ a.v = b.v)
AlphaInRange(a) == FLe(One, a) /\ FLe(a, Fin(10 * Scale))
BetaInRange(a) == FLe(Fin(-(Scale \div 2)), a) /\ FLe(a, Fin(Scale \div 2))

\* Mutant of CallArgs: decryption runs the map with beta negated.
CallArgsByMode(m, inf, outf, a0, al, be) ==
    [input_path |-> inf, output_path |-> outf, x0 |-> a0, alpha |-> al,
     beta |-> IF m = "decrypt" THEN FNeg(be) ELSE be]

\* The arguments main passes to chaotic_encrypt_decrypt.
CallArgs(m, inf, outf, a0, al, be) ==
    [input_path |-> inf, output_path |-> outf, x0 |-> a0, alpha |-> al, beta |-> be]

\* 'Encrypted' if mode == 'encrypt' else 'Decrypted'
DoneMessage(m) == IF m = "encrypt" THEN "Done. Encrypted" ELSE "Done. Decrypted"

\* -------------------------------------------------------------------- state
VARIABLES
    fs,           \* the file system: path -> [exists, content]
    pc,           \* the statement the program is at
    caller,       \* who called gauss_map_keygen: "core" or "direct"
    runs,         \* runs of main (or direct calls) started so far
    mode, input_file, output_file, m_x0, m_alpha, m_beta,   \* main's locals
    input_path, output_path, x0, alpha, beta,   \* parameters of the two functions
    data, length, key, result,                  \* chaotic_encrypt_decrypt's locals
    i, x,         \* gauss_map_keygen's loop index and map state
    out,          \* the last line printed
    err,          \* the exception that ended the run, or "none"
    iters,        \* history: map updates performed by the current call
    path,         \* history: the statements the current run went through
    saved         \* history: at most one earlier completed call

mainVars == <<mode, input_file, output_file, m_x0, m_alpha, m_beta>>
frameVars == <<input_path, output_path, x0, alpha, beta>>
coreVars == <<data, length, result>>
genVars == <<key, i, x, iters>>
vars == <<fs, pc, caller, runs, mainVars, frameVars, coreVars, genVars,
          out, err, path, saved>>

NoFile == [exists |-> FALSE, content |-> <<>>]
File(c) == [exists |-> TRUE, content |-> c]

\* The record of the call that has just completed.
Snapshot ==
    [call |-> runs, mode |-> mode, m_x0 |-> m_x0, m_alpha |-> m_alpha,
     m_beta |-> m_beta, data |-> data, x0 |-> x0, alpha |-> alpha, beta |-> beta,
     length |-> length, key |-> key, x |-> x, result |-> result, path |-> path,
     written |-> IF caller = "core" THEN fs[output_path].content ELSE <<>>]

FreshLocals ==
    /\ mode = "" /\ input_file = "" /\ output_file = ""
    /\ m_x0 = Fin(0) /\ m_alpha = Fin(0) /\ m_beta = Fin(0)
    /\ input_path = "" /\ output_path = ""
    /\ data = <<>> /\ result = <<>>
    /\ key = <<>> /\ i = 0 /\ iters = 0
    /\ out = "" /\ err = "none" /\ path = <<>>

\* ------------------------------------------------------------ gauss_map_keygen
\* x = x0; key = bytearray(length)
Keygen_Init ==
    /\ pc = "keygen"
    /\ x' = InitialX(x0, x)
    /\ key' = ByteArray(length)
    /\ i' = 0
    /\ iters' = 0
    /\ pc' = "loop"
    /\ path' = Append(path, "keygen")
    /\ UNCHANGED <<fs, caller, runs, mainVars, frameVars, coreVars, out, err, saved>>

\* One pass of the loop body: the map update, then the byte.  Either may raise,
\* which ends the call (and the program: nothing catches it).
Keygen_Step ==
    /\ pc = "loop"
    /\ InRange(i, length)
    /\ path' = Append(path, "loop")
    /\ LET u == MapUpdate(x, alpha, beta, i = 0)
           b == ToByte(u.val)
       IN  IF u.err # "none"
           THEN /\ err' = u.err
                /\ pc' = "raised"
                /\ UNCHANGED <<x, key, i, iters>>
           ELSE /\ x' = u.val
                /\ iters' = iters + 1
                /\ IF b.err # "none"
                   THEN /\ err' = b.err
                        /\ pc' = "raised"
                        /\ UNCHANGED <<key, i>>
                   ELSE /\ key' = [key EXCEPT ![KeyIndex(i, length)] = b.val]
                        /\ i' = i + 1
                        /\ pc' = "loop"
                        /\ err' = err
    /\ UNCHANGED <<fs, caller, runs, mainVars, frameVars, coreVars, out, saved>>

\* range(length) is exhausted: return bytes(key)
Keygen_Return ==
    /\ pc = "loop"
    /\ ~InRange(i, length)
    /\ pc' = IF caller = "core" THEN "xor" ELSE "returned"
    /\ path' = Append(path, "return")
    /\ UNCHANGED <<fs, caller, runs, mainVars, frameVars, coreVars, genVars,
                   out, err, saved>>

\* ------------------------------------------------------ chaotic_encrypt_decrypt
\* with open(input_path, 'rb') as f_in: data = f_in.read(); length = len(data)
Core_Read ==
    /\ pc = "read"
    /\ path' = Append(path, "read")
    /\ IF fs[input_path].exists
       THEN /\ data' = fs[input_path].content
            /\ length' = Len(fs[input_path].content)
            /\ pc' = "keygen"
            /\ err' = err
       ELSE /\ err' = "FileNotFoundError"
            /\ pc' = "raised"
            /\ UNCHANGED <<data, length>>
    /\ UNCHANGED <<fs, caller, runs, mainVars, frameVars, result, genVars, out, saved>>

\* result = bytes(d ^ k for d, k in zip(data, key))
Core_Xor ==
    /\ pc = "xor"
    /\ result' = XorZip(data, key)
    /\ pc' = "write"
    /\ path' = Append(path, "xor")
    /\ UNCHANGED <<fs, caller, runs, mainVars, frameVars, data, length, genVars,
                   out, err, saved>>

\* with open(output_path, 'wb') as f_out: f_out.write(result)
Core_Write ==
    /\ pc = "write"
    /\ fs' = [fs EXCEPT ![output_path] = File(result)]
    /\ pc' = "done"
    /\ path' = Append(path, "write")
    /\ UNCHANGED <<caller, runs, mainVars, frameVars, coreVars, genVars, out, err, saved>>

\* ------------------------------------------------------------------------ main
\* mode = input(...).strip().lower(); an unknown mode ends the run.
Main_ReadMode ==
    /\ pc = "mode"
    /\ \E t \in ModeInputs :
          /\ mode' = StripLower(t)
          /\ IF ValidMode(StripLower(t))
             THEN pc' = "files" /\ out' = out
             ELSE pc' = "exit" /\ out' = "Invalid mode. Use 'encrypt' or 'decrypt'."
    /\ path' = Append(path, "mode")
    /\ UNCHANGED <<fs, caller, runs, input_file, output_file, m_x0, m_alpha, m_beta,
                   frameVars, coreVars, genVars, err, saved>>

\* input_file = input(...).strip(); output_file = input(...).strip()
Main_ReadFiles ==
    /\ pc = "files"
    /\ input_file' \in PathInputs
    /\ output_file' \in PathInputs
    /\ pc' = "params"
    /\ path' = Append(path, "files")
    /\ UNCHANGED <<fs, caller, runs, mode, m_x0, m_alpha, m_beta,
                   frameVars, coreVars, genVars, out, err, saved>>

\* The try block: x0, alpha and beta are parsed in turn; the first ValueError
\* ends the run, leaving the later ones unassigned.
Main_ReadParams ==
    /\ pc = "params"
    /\ \E tx \in X0Inputs, ta \in AlphaInputs, tb \in BetaInputs :
          LET a0 == FloatOf(tx)
              al == FloatOf(ta)
              be == FloatOf(tb)
              ok1 == a0.err = "none"
              ok2 == ok1 /\ al.err = "none"
              ok3 == ok2 /\ be.err = "none"
          IN  /\ m_x0' = IF ok1 THEN a0.val ELSE m_x0
              /\ m_alpha' = IF ok2 THEN al.val ELSE m_alpha
              /\ m_beta' = IF ok3 THEN be.val ELSE m_beta
              /\ IF ok3
                 THEN pc' = "validate" /\ out' = out
                 ELSE pc' = "exit" /\ out' = "Invalid x0, alpha, or beta. Must be float."
    /\ path' = Append(path, "params")
    /\ UNCHANGED <<fs, caller, runs, mode, input_file, output_file,
                   frameVars, coreVars, genVars, err, saved>>

\* if not (-1 < x0 < 1): print(...); return
Main_Validate ==
    /\ pc = "validate"
    /\ IF X0InRange(m_x0)
       THEN pc' = "call" /\ out' = out
       ELSE pc' = "exit" /\ out' = "x0 must be between -1 and 1."
    /\ path' = Append(path, "validate")
    /\ UNCHANGED <<fs, caller, runs, mainVars, frameVars, coreVars, genVars, err, saved>>

\* chaotic_encrypt_decrypt(input_file, output_file, x0, alpha, beta)
Main_Call ==
    /\ pc = "call"
    /\ LET a == CallArgs(mode, input_file, output_file, m_x0, m_alpha, m_beta)
       IN  /\ input_path' = a.input_path
           /\ output_path' = a.output_path
           /\ x0' = a.x0
           /\ alpha' = a.alpha
           /\ beta' = a.beta
    /\ pc' = "read"
    /\ path' = Append(path, "call")
    /\ UNCHANGED <<fs, caller, runs, mainVars, coreVars, genVars, out, err, saved>>

\* print(f"\nDone. {'Encrypted' if mode=='encrypt' else 'Decrypted'} file saved ...")
Main_Done ==
    /\ pc = "done"
    /\ out' = DoneMessage(mode)
    /\ pc' = "exit"
    /\ path' = Append(path, "done")
    /\ UNCHANGED <<fs, caller, runs, mainVars, frameVars, coreVars, genVars, err, saved>>

\* The run went through the whole of main.
Completed == pc = "exit" /\ path # <<>> /\ path[Len(path)] = "done"

\* The program is started again, as a new process: the files stay, every local
\* starts afresh.
\* The history keeps the earlier call or takes the one just completed.
Restart ==
    /\ pc \in {"exit", "raised"}
    /\ runs < MaxRuns
    /\ runs' = runs + 1
    /\ saved' \in {saved} \cup (IF Completed THEN {{Snapshot}} ELSE {})
    /\ pc' = "mode"
    /\ mode' = "" /\ input_file' = "" /\ output_file' = ""
    /\ m_x0' = Fin(0) /\ m_alpha' = Fin(0) /\ m_beta' = Fin(0)
    /\ input_path' = "" /\ output_path' = ""
    /\ x0' = Fin(0) /\ alpha' = Fin(0) /\ beta' = Fin(0)
    /\ data' = <<>> /\ length' = 0 /\ result' = <<>>
    /\ key' = <<>> /\ i' = 0 /\ iters' = 0
    /\ out' = "" /\ err' = "none" /\ path' = <<>>
    /\ x' = Fin(0)
    /\ UNCHANGED <<fs, caller>>

Init ==
    /\ \E d \in InitData : fs = [f \in PathInputs |-> IF f = "a" THEN File(d) ELSE NoFile]
    /\ pc = "mode"
    /\ caller = "core"
    /\ runs = 1
    /\ FreshLocals
    /\ x0 = Fin(0) /\ alpha = Fin(0) /\ beta = Fin(0)
    /\ length = 0
    /\ x = Fin(0)
    /\ saved = {}

Next ==
    \/ Main_ReadMode
    \/ Main_ReadFiles
    \/ Main_ReadParams
    \/ Main_Validate
    \/ Main_Call
    \/ Core_Read
    \/ Keygen_Init
    \/ Keygen_Step
    \/ Keygen_Return
    \/ Core_Xor
    \/ Core_Write
    \/ Main_Done
    \/ Restart

Spec == Init /\ [][Next]_vars

\* ------------------------------------------------- the generator called directly
\* gauss_map_keygen(length, x0, alpha, beta), called again after it returned
\* or raised.
Gen_Call ==
    /\ pc \in {"returned", "raised"}
    /\ runs < MaxCalls
    /\ runs' = runs + 1
    /\ saved' \in {saved} \cup (IF pc = "returned" THEN {{Snapshot}} ELSE {})
    /\ length' \in 0..MaxLen
    /\ x0' \in GenX0
    /\ alpha' \in GenAlpha
    /\ beta' \in GenBeta
    /\ pc' = "keygen"
    /\ key' = <<>> /\ i' = 0 /\ iters' = 0
    /\ err' = "none" /\ path' = <<>>
    /\ UNCHANGED <<fs, caller, mainVars, input_path, output_path, data, result, x, out>>

InitGen ==
    /\ fs = [f \in PathInputs |-> NoFile]
    /\ pc = "keygen"
    /\ caller = "direct"
    /\ runs = 1
    /\ FreshLocals
    /\ length \in 0..MaxLen
    /\ x0 \in GenX0
    /\ alpha \in GenAlpha
    /\ beta \in GenBeta
    /\ x = Fin(0)
    /\ saved = {}

NextGen ==
    \/ Keygen_Init
    \/ Keygen_Step
    \/ Keygen_Return
    \/ Gen_Call

SpecGen == InitGen /\ [][NextGen]_vars

\* ====================================================================== claims
SameP(s) == s.x0 = x0 /\ s.alpha = alpha /\ s.beta = beta
SameEntered(s) == s.m_x0 = m_x0 /\ s.m_alpha = m_alpha /\ s.m_beta = m_beta
Wrote == pc = "done" \/ Completed
Emitted == pc \in {"loop", "returned"} /\ i > 0
Bit(n, k) == (n \div (2 ^ k)) % 2
IsPrefix(a, b) == Len(a) <= Len(b) /\ a = SubSeq(b, 1, Len(a))
CorePcs == {"read", "keygen", "loop", "xor", "write", "done"}

\* C1 -- Involution: a run that transforms the output of an earlier completed
\* run, with the same x0, alpha and beta, writes a file byte-identical to the
\* data the earlier run read.
C1_Involution ==
    \A s \in saved :
        (Wrote /\ data = s.written /\ SameP(s))
            => (result = s.data /\ fs[output_path].content = s.data)

C1_Witness ==
    \E s \in saved :
        /\ Wrote /\ data = s.written /\ SameP(s)
        /\ Len(s.data) >= 2 /\ s.written # s.data

\* C2 -- The transform asks for a keystream of exactly len(data) bytes, and what
\* it writes has exactly that length, byte j being data[j] XOR keystream[j] (bit
\* by bit: a result bit is set exactly when the two bits differ); an input file
\* other than the output file is left as it was read.
C2_IndexWiseXor ==
    /\ pc \in {"keygen", "loop", "xor", "write", "done"} => length = Len(data)
    /\ pc \in {"xor", "write", "done"} => Len(key) = Len(data)
    /\ Wrote =>
        /\ fs[output_path] = File(result)
        /\ Len(result) = Len(data)
        /\ \A j \in 1..Len(data) : \A k \in 0..7 :
              Bit(result[j], k) = (IF Bit(data[j], k) # Bit(key[j], k) THEN 1 ELSE 0)
        /\ result \in Seq(0..255)
        /\ input_path # output_path => fs[input_path] = File(data)

C2_Witness == pc = "done" /\ Len(data) >= 2 /\ result # data

C4_ByteRange == \A j \in DOMAIN key : key[j] \in 0..255

C4_Witness ==
    /\ Emitted /\ IsFin(x) /\ x.v < -Scale
    /\ \E s \in saved : s.length > 0 /\ IntOf(Scaled(s.x)).val > 255

\* C5 -- Determinism, no hidden state: a call that returns gives the same bytes
\* as an earlier call with the same length, x0, alpha and beta, whatever calls
\* were made before or between the two.
C5_Deterministic ==
    \A s \in saved :
        (pc = "returned" /\ s.length = length /\ SameP(s)) => key = s.key

C5_Witness ==
    \E s \in saved :
        /\ pc = "returned" /\ s.length = length /\ SameP(s)
        /\ s.call = 1 /\ runs = 3 /\ length >= 2

C7_ValidatedBeforeCore ==
    (caller = "core" /\ pc \in CorePcs)
        => (X0InRange(x0) /\ AlphaInRange(alpha) /\ BetaInRange(beta))

\* C8 (as claimed) -- Every emitted byte is floor(((x + 1)/2) * 256) modulo 256,
\* x being the map state just updated.
C8_FloorByte ==
    Emitted => key[i] = (Scaled(x).v \div Scale) % 256

\* C8 (amended) -- Every emitted byte is ((x + 1)/2) * 256 rounded toward zero,
\* modulo 256: the floor when the scaled value is not negative, and the ceiling
\* when it is negative.
C8_TruncByte ==
    Emitted =>
        LET v == Scaled(x).v
        IN  /\ v >= 0 => key[i] = (v \div Scale) % 256
            /\ v < 0 => key[i] = (-((-v) \div Scale)) % 256

C8_Witness == Emitted /\ Scaled(x).v < 0 /\ Scaled(x).v % Scale # 0

\* C9 -- Mode is only a label: a completed run in one mode and an earlier
\* completed run in the other mode, on the same file contents with the same
\* x0, alpha and beta entered, go through the same statements and write the same
\* bytes; only the last line printed differs.
C9_ModeIsLabel ==
    \A s \in saved :
        (Completed /\ s.mode # mode /\ s.data = data /\ SameEntered(s))
            => /\ path = s.path
               /\ key = s.key
               /\ fs[output_path].content = s.written
               /\ out = DoneMessage(mode)

C9_Witness ==
    \E s \in saved :
        /\ Completed /\ s.mode = "encrypt" /\ mode = "decrypt"
        /\ s.data = data /\ SameEntered(s) /\ Len(data) >= 2

\* C10 -- Prefix consistency: the map state is updated once per byte written, in
\* index order, and of two calls with the same x0, alpha and beta the shorter
\* keystream is a prefix of the longer.
C10_Prefix ==
    /\ pc \in {"loop", "returned"} => iters = i
    /\ \A s \in saved :
          (pc = "returned" /\ SameP(s)) => (IsPrefix(s.key, key) \/ IsPrefix(key, s.key))

C10_Witness ==
    \E s \in saved :
        /\ pc = "returned" /\ SameP(s)
        /\ s.length >= 1 /\ s.length < length
        /\ key[1] # key[2]

=============================================================================
